---------------------------- MODULE Spec2Model ----------------------------
(***************************************************************************)
(* Model of src/actions/MyActions/nhl/actions.py and support.py: the NHL   *)
(* actions, the team directory file data/teams.json, the roster files and  *)
(* the recursive noise-stripping traversals.                               *)
(*                                                                         *)
(* JSON values are modelled as trees:                                      *)
(*   <<"scalar", s>>   a scalar leaf (s = "null" is JSON null, falsy;      *)
(*                     any other s is a non-empty JSON string, truthy)     *)
(*   <<"object", f>>   a dict, f a function from its keys to trees         *)
(*   <<"array", q>>    a list, q a sequence of trees                       *)
(* Strings that the resolver inspects are sequences of characters.         *)
(***************************************************************************)
EXTENDS Naturals, Sequences, FiniteSets, TLC

VARIABLES teams_file, roster_files, last, tree, out, applied

vars == <<teams_file, roster_files, last, tree, out, applied>>

---------------------------------------------------------------------------
(* Bounds *)

\* largest number of nodes of a generated JSON tree
MaxNodes == 4
\* largest number of traversals applied in a row to one tree
MaxApply == 2
\* largest number of entries of an upstream standings answer
MaxTeams == 2
\* largest number of records of a directory given to the resolver
MaxDir == 2
\* largest length of a query given to the resolver
MaxQueryLen == 2

---------------------------------------------------------------------------
(* JSON trees *)

Keys == {"headshot", "teamLogo", "name"}
KeyOrder == <<"headshot", "teamLogo", "name">>
ScalarValues == {"null", "url"}

Scalar(s) == <<"scalar", s>>
Object(f) == <<"object", f>>
Array(q) == <<"array", q>>

IsObject(data) == data[1] = "object"
IsArray(data) == data[1] = "array"
IsScalar(data) == data[1] = "scalar"

EmptyObject == Object(<<>>)
EmptyArray == Array(<<>>)

\* the strictly increasing sequences of positions of KeyOrder: one per key set
RECURSIVE KeySeqsFrom(_)
KeySeqsFrom(i) ==
    IF i > Len(KeyOrder) THEN {<<>>}
    ELSE KeySeqsFrom(i + 1) \cup {<<KeyOrder[i]>> \o s : s \in KeySeqsFrom(i + 1)}

KeySeqs == KeySeqsFrom(1)

ObjectOf(ks, vs) ==
    Object([k \in {ks[i] : i \in 1..Len(ks)} |->
              vs[CHOOSE i \in 1..Len(ks) : ks[i] = k]])

\* TreesOfSize[n]: the trees of exactly n nodes; ForestsOfSize[n]: the
\* sequences of trees of n nodes in all
RECURSIVE TreesOfSize(_), ForestsOfSize(_)
TreesOfSize(n) ==
    IF n = 0 THEN {}
    ELSE IF n = 1 THEN {Scalar(s) : s \in ScalarValues} \cup {EmptyObject, EmptyArray}
    ELSE LET fs == ForestsOfSize(n - 1) IN
         {Array(q) : q \in fs}
         \cup {ObjectOf(ks, q) : <<ks, q>> \in
                 {p \in KeySeqs \X fs : Len(p[1]) = Len(p[2])}}

ForestsOfSize(m) ==
    IF m = 0 THEN {<<>>}
    ELSE UNION {{<<t>> \o q : t \in TreesOfSize(k), q \in ForestsOfSize(m - k)} :
                  k \in 1..m}

\* the roster answer of the specification's scenario:
\* {"headshot": "url", "forwards": [{"headshot": "url", "name": "A"}]}
ExampleRoster ==
    Object([k \in {"headshot", "forwards"} |->
        IF k = "headshot" THEN Scalar("url")
        ELSE Array(<<Object([j \in {"headshot", "name"} |->
                        IF j = "headshot" THEN Scalar("url") ELSE Scalar("A")])>>)])

\* {"forwards": [{"name": "A"}]}
ExampleStripped ==
    Object([k \in {"forwards"} |->
        Array(<<Object([j \in {"name"} |-> Scalar("A")])>>)])

Trees == UNION {TreesOfSize(n) : n \in 1..MaxNodes} \cup {ExampleRoster}

---------------------------------------------------------------------------
(* The noise-stripping traversals, actions.py 116-135.  The code mutates   *)
(* the tree in place; the operator returns the tree as it is afterwards.   *)

\* variant: the list branch is missing, arrays are not entered
RECURSIVE remove_headshot_NoArrays(_)
remove_headshot_NoArrays(data) ==
    IF IsObject(data) THEN
        Object([k \in DOMAIN data[2] \ {"headshot"} |->
                  remove_headshot_NoArrays(data[2][k])])
    ELSE data

\* variant: the loop over the values sits in an else branch of the deletion
RECURSIVE remove_headshot_ElseRecurse(_)
remove_headshot_ElseRecurse(data) ==
    IF IsObject(data) THEN
        IF "headshot" \in DOMAIN data[2]
        THEN Object([k \in DOMAIN data[2] \ {"headshot"} |-> data[2][k]])
        ELSE Object([k \in DOMAIN data[2] |-> remove_headshot_ElseRecurse(data[2][k])])
    ELSE IF IsArray(data) THEN
        Array([i \in 1..Len(data[2]) |-> remove_headshot_ElseRecurse(data[2][i])])
    ELSE data

\* variant: the traversal deletes the teamLogo key as well
RECURSIVE remove_headshot_AlsoLogo(_)
remove_headshot_AlsoLogo(data) ==
    IF IsObject(data) THEN
        Object([k \in DOMAIN data[2] \ {"headshot", "teamLogo"} |->
                  remove_headshot_AlsoLogo(data[2][k])])
    ELSE IF IsArray(data) THEN
        Array([i \in 1..Len(data[2]) |-> remove_headshot_AlsoLogo(data[2][i])])
    ELSE data

RECURSIVE remove_headshot(_)
remove_headshot(data) ==
    IF IsObject(data) THEN
        LET f == data[2]
            kept == DOMAIN f \ {"headshot"}         \* del data["headshot"]
        IN Object([k \in kept |-> remove_headshot(f[k])])
    ELSE IF IsArray(data) THEN
        Array([i \in 1..Len(data[2]) |-> remove_headshot(data[2][i])])
    ELSE data

RECURSIVE remove_teamlogo(_)
remove_teamlogo(data) ==
    IF IsObject(data) THEN
        LET f == data[2]
            kept == DOMAIN f \ {"teamLogo"}         \* del data["teamLogo"]
        IN Object([k \in kept |-> remove_teamlogo(f[k])])
    ELSE IF IsArray(data) THEN
        Array([i \in 1..Len(data[2]) |-> remove_teamlogo(data[2][i])])
    ELSE data

\* Python's truth value of a parsed JSON value: `not data`
Falsy(data) ==
    \/ IsObject(data) /\ DOMAIN data[2] = {}
    \/ IsArray(data) /\ Len(data[2]) = 0
    \/ IsScalar(data) /\ data[2] = "null"

---------------------------------------------------------------------------
(* Strings: sequences of characters.  str.lower() and the `in` test of     *)
(* actions.py 63-64.                                                       *)

LowerChar(c) ==
    CASE c = "A" -> "a"
      [] c = "B" -> "b"
      [] OTHER -> c

lower(s) == [i \in 1..Len(s) |-> LowerChar(s[i])]

\* Python's `x in y` on strings: x occurs in y as a contiguous run
IsSubstring(x, y) ==
    \E i \in 0..Len(y) :
        /\ i + Len(x) <= Len(y)
        /\ SubSeq(y, i + 1, i + Len(x)) = x

RECURSIVE StrsUpTo(_, _)
StrsUpTo(alphabet, n) ==
    IF n = 0 THEN {<<>>}
    ELSE LET shorter == StrsUpTo(alphabet, n - 1) IN
         shorter \cup {Append(s, c) : s \in shorter, c \in alphabet}

RECURSIVE SeqsUpTo(_, _)
SeqsUpTo(S, n) ==
    IF n = 0 THEN {<<>>}
    ELSE LET shorter == SeqsUpTo(S, n - 1) IN
         shorter \cup {Append(s, x) : s \in shorter, x \in S}

---------------------------------------------------------------------------
(* Files and upstream answers *)

NoFile == <<"nofile">>
Exists(file) == file[1] = "file"

\* support.py: open(..., "w") replaces the file's content by json.dumps(data)
write_data_to_json(data) == <<"file", data>>

\* actions.py 59-60: json.load of the file's content
json_load(file) == file[2]

NoValue == <<"none">>
Value(x) == <<"value", x>>

\* a standings entry whose "teamName" key is absent: standing.get(...) is None
Missing == <<"-missing-">>

\* one issued request: its path, the argument in its URL, whether
\* raise_for_status() passed
Get(path, arg, ok) == <<path, arg, ok>>

TeamsFileName == <<"teams", <<>>>>
RosterFileName(abbreviation) == <<"roster", abbreviation>>

HttpError == [ok |-> FALSE, body |-> NoValue]
Ok(body) == [ok |-> TRUE, body |-> Value(body)]
\* the answer of a request that is not issued
NoCall == [ok |-> FALSE, body |-> <<"nocall">>]

\* what one invocation did: how it ended, what it returned, the requests it
\* issued in order, the files it wrote, the files afterwards, the resolved
\* abbreviation, and the bodies upstream answered with
Effect(outcome, result, gets, written, file, rosters, abbr, payload, standings) ==
    [outcome |-> outcome, result |-> result, gets |-> gets, written |-> written,
     file |-> file, rosters |-> rosters, abbr |-> abbr, payload |-> payload,
     standings |-> standings]

NoLast ==
    [action |-> "none", query |-> <<>>, refresh |-> FALSE, before |-> NoFile,
     outcome |-> "none", result |-> NoValue, gets |-> <<>>, written |-> {},
     abbr |-> NoValue, payload |-> NoValue, standings |-> NoValue]

\* the invocation returns (or raises): the files and the record of the
\* invocation take the values of its effect
Finish(action, query, refresh, e) ==
    /\ teams_file' = e.file
    /\ roster_files' = e.rosters
    /\ last' = [action |-> action, query |-> query, refresh |-> refresh,
                before |-> teams_file, outcome |-> e.outcome, result |-> e.result,
                gets |-> e.gets, written |-> e.written, abbr |-> e.abbr,
                payload |-> e.payload, standings |-> e.standings]
    /\ UNCHANGED <<tree, out, applied>>

---------------------------------------------------------------------------
(* get_teams, actions.py 24-46 *)

\* lines 36-44: one record per standings entry, in order
TeamsOf(standings) ==
    [i \in 1..Len(standings) |->
        [team_name |-> standings[i].teamName,
         team_abbreviation |-> standings[i].teamAbbrev]]

\* variant: the file is opened for writing before the request is made
GetTeamsEffect_TruncateFirst(file, rosters, sresp) ==
    IF ~sresp.ok THEN
        Effect("UpstreamError", NoValue, <<Get("standings", <<>>, FALSE)>>,
               {TeamsFileName}, write_data_to_json(<<>>), rosters,
               NoValue, NoValue, NoValue)
    ELSE LET teams == [i \in 1..Len(sresp.body[2]) |->
                          [team_name |-> sresp.body[2][i].teamName,
                           team_abbreviation |-> sresp.body[2][i].teamAbbrev]] IN
        Effect("ok", Value(teams), <<Get("standings", <<>>, TRUE)>>,
               {TeamsFileName}, write_data_to_json(teams), rosters,
               NoValue, NoValue, Value(sresp.body[2]))

\* variant: the new records are added to the persisted ones
GetTeamsEffect_Append(file, rosters, sresp) ==
    IF ~sresp.ok THEN
        Effect("UpstreamError", NoValue, <<Get("standings", <<>>, FALSE)>>, {},
               file, rosters, NoValue, NoValue, NoValue)
    ELSE LET teams == [i \in 1..Len(sresp.body[2]) |->
                          [team_name |-> sresp.body[2][i].teamName,
                           team_abbreviation |-> sresp.body[2][i].teamAbbrev]]
             old == IF Exists(file) THEN json_load(file) ELSE <<>> IN
        Effect("ok", Value(teams), <<Get("standings", <<>>, TRUE)>>,
               {TeamsFileName}, write_data_to_json(old \o teams), rosters,
               NoValue, NoValue, Value(sresp.body[2]))

\* the effect of get_teams() on the files `file` and `rosters` when upstream
\* answers the standings request with `sresp`
GetTeamsEffect(file, rosters, sresp) ==
    IF ~sresp.ok THEN
        \* raise_for_status() raises
        Effect("UpstreamError", NoValue, <<Get("standings", <<>>, FALSE)>>, {},
               file, rosters, NoValue, NoValue, NoValue)
    ELSE LET standings == sresp.body[2] IN
        IF \E i \in 1..Len(standings) :
              standings[i].teamName = Missing \/ standings[i].teamAbbrev = Missing
        THEN
            \* None["default"] raises before anything is written
            Effect("TypeError", NoValue, <<Get("standings", <<>>, TRUE)>>, {},
                   file, rosters, NoValue, NoValue, Value(standings))
        ELSE
            Effect("ok", Value(TeamsOf(standings)), <<Get("standings", <<>>, TRUE)>>,
                   {TeamsFileName}, write_data_to_json(TeamsOf(standings)), rosters,
                   NoValue, NoValue, Value(standings))

get_teams(sresp) ==
    LET e == GetTeamsEffect(teams_file, roster_files, sresp) IN
    Finish("get_teams", <<>>, FALSE, e)

---------------------------------------------------------------------------
(* get_team_abbreviation, actions.py 49-67 *)

\* variant: the query is compared as typed
Matches_CaseSensitive(query, team) ==
    \/ IsSubstring(query, lower(team.team_name))
    \/ IsSubstring(query, lower(team.team_abbreviation))

\* lines 62-65
Matches(query, team) ==
    \/ IsSubstring(lower(query), lower(team.team_name))
    \/ IsSubstring(lower(query), lower(team.team_abbreviation))

\* variant: the loop does not stop at the first match, the last one wins
RECURSIVE ScanTeams_LastMatch(_, _, _)
ScanTeams_LastMatch(teams, query, i) ==
    IF i > Len(teams) THEN NoValue
    ELSE LET rest == ScanTeams_LastMatch(teams, query, i + 1) IN
         IF rest # NoValue THEN rest
         ELSE IF Matches(query, teams[i]) THEN Value(teams[i].team_abbreviation)
         ELSE NoValue

\* lines 61-67: the loop over the loaded list, from position i on
RECURSIVE ScanTeams(_, _, _)
ScanTeams(teams, query, i) ==
    IF i > Len(teams) THEN NoValue                  \* raise ValueError
    ELSE IF Matches(query, teams[i]) THEN Value(teams[i].team_abbreviation)
    ELSE ScanTeams(teams, query, i + 1)

\* variant: every resolution fetches the standings
LoadEffect_AlwaysFetch(file, rosters, sresp) ==
    GetTeamsEffect(file, rosters, sresp)

\* variant: an empty persisted directory is fetched again
LoadEffect_RefetchWhenEmpty(file, rosters, sresp) ==
    IF Exists(file) /\ json_load(file) # <<>>
    THEN Effect("ok", NoValue, <<>>, {}, file, rosters, NoValue, NoValue, NoValue)
    ELSE GetTeamsEffect(file, rosters, sresp)

\* line 58: the standings request is issued only when the file is absent
LoadEffect(file, rosters, sresp) ==
    IF Exists(file)
    THEN Effect("ok", NoValue, <<>>, {}, file, rosters, NoValue, NoValue, NoValue)
    ELSE GetTeamsEffect(file, rosters, sresp)

get_team_abbreviation(query, file, rosters, sresp) ==
    LET l == LoadEffect(file, rosters, sresp) IN
    IF l.outcome # "ok" THEN l
    ELSE LET found == ScanTeams(json_load(l.file), query, 1) IN
         IF found = NoValue
         THEN Effect("ValueError", NoValue, l.gets, l.written, l.file, rosters,
                     NoValue, NoValue, l.standings)
         ELSE Effect("ok", NoValue, l.gets, l.written, l.file, rosters,
                     found, NoValue, l.standings)

---------------------------------------------------------------------------
(* The fetchers.  r is the effect of the invocation so far: of the         *)
(* resolution for a team-scoped action, Start for the others.              *)

Start ==
    Effect("ok", NoValue, <<>>, {}, teams_file, roster_files, NoValue, NoValue, NoValue)

\* response.raise_for_status() raises
UpstreamFailed(r, path, arg) ==
    Effect("UpstreamError", NoValue, Append(r.gets, Get(path, arg, FALSE)),
           r.written, r.file, r.rosters, r.abbr, NoValue, r.standings)

\* raise ActionError(f"Team {abbreviation} not found")
EmptyResult(r, path, arg, body) ==
    Effect("ActionError", NoValue, Append(r.gets, Get(path, arg, TRUE)),
           r.written, r.file, r.rosters, r.abbr, Value(body), r.standings)

\* return data
Returned(r, path, arg, body, data) ==
    Effect("ok", Value(data), Append(r.gets, Get(path, arg, TRUE)),
           r.written, r.file, r.rosters, r.abbr, Value(body), r.standings)

\* write_data_to_json(data, f"team_{abbreviation}_roster")
WithRosterFile(r, abbreviation, data) ==
    [r EXCEPT !.written = @ \cup {RosterFileName(abbreviation)},
              !.rosters = [a \in DOMAIN @ \cup {abbreviation} |->
                              IF a = abbreviation THEN write_data_to_json(data)
                              ELSE @[a]]]

\* variant: the roster file is written before the emptiness test
RosterEffect_WriteBeforeCheck(r, resp) ==
    IF ~resp.ok THEN UpstreamFailed(r, "roster", r.abbr[2])
    ELSE LET data == remove_headshot(resp.body[2])
             w == WithRosterFile(r, r.abbr[2], data) IN
         IF Falsy(data) THEN EmptyResult(w, "roster", r.abbr[2], resp.body[2])
         ELSE Returned(w, "roster", r.abbr[2], resp.body[2], data)

\* get_team_roster, lines 83-96
RosterEffect(r, resp) ==
    LET abbreviation == r.abbr[2] IN
    IF ~resp.ok THEN UpstreamFailed(r, "roster", abbreviation)
    ELSE LET data == remove_headshot(resp.body[2]) IN
         IF Falsy(data) THEN EmptyResult(r, "roster", abbreviation, resp.body[2])
         ELSE Returned(WithRosterFile(r, abbreviation, data),
                       "roster", abbreviation, resp.body[2], data)

get_team_roster(team_name_or_abbreviation, refresh, sresp, resp) ==
    LET r == get_team_abbreviation(team_name_or_abbreviation, teams_file,
                                   roster_files, sresp) IN
    Finish("get_team_roster", team_name_or_abbreviation, refresh,
           IF r.outcome # "ok" THEN r ELSE RosterEffect(r, resp))

\* get_team_scoreboard, lines 148-154
ScoreboardEffect(r, resp) ==
    LET abbreviation == r.abbr[2] IN
    IF ~resp.ok THEN UpstreamFailed(r, "scoreboard", abbreviation)
    ELSE LET data == resp.body[2] IN
         IF Falsy(data) THEN EmptyResult(r, "scoreboard", abbreviation, data)
         ELSE Returned(r, "scoreboard", abbreviation, data, data)

get_team_scoreboard(team_name_or_abbreviation, sresp, resp) ==
    LET r == get_team_abbreviation(team_name_or_abbreviation, teams_file,
                                   roster_files, sresp) IN
    Finish("get_team_scoreboard", team_name_or_abbreviation, FALSE,
           IF r.outcome # "ok" THEN r ELSE ScoreboardEffect(r, resp))

\* get_team_stats, lines 215-223
StatsEffect(r, resp) ==
    LET abbreviation == r.abbr[2] IN
    IF ~resp.ok THEN UpstreamFailed(r, "club-stats", abbreviation)
    ELSE LET data == remove_teamlogo(remove_headshot(resp.body[2])) IN
         IF Falsy(data) THEN EmptyResult(r, "club-stats", abbreviation, resp.body[2])
         ELSE Returned(r, "club-stats", abbreviation, resp.body[2], data)

get_team_stats(team_name_or_abbreviation, sresp, resp) ==
    LET r == get_team_abbreviation(team_name_or_abbreviation, teams_file,
                                   roster_files, sresp) IN
    Finish("get_team_stats", team_name_or_abbreviation, FALSE,
           IF r.outcome # "ok" THEN r ELSE StatsEffect(r, resp))

\* get_team_schedule, lines 236-242
ScheduleEffect(r, resp) ==
    LET abbreviation == r.abbr[2] IN
    IF ~resp.ok THEN UpstreamFailed(r, "club-schedule-season", abbreviation)
    ELSE LET data == resp.body[2] IN
         IF Falsy(data) THEN EmptyResult(r, "club-schedule-season", abbreviation, data)
         ELSE Returned(r, "club-schedule-season", abbreviation, data, data)

get_team_schedule(team_name_or_abbreviation, sresp, resp) ==
    LET r == get_team_abbreviation(team_name_or_abbreviation, teams_file,
                                   roster_files, sresp) IN
    Finish("get_team_schedule", team_name_or_abbreviation, FALSE,
           IF r.outcome # "ok" THEN r ELSE ScheduleEffect(r, resp))

\* the fetchers that return the parsed body as it is: lines 109-113,
\* 165-170, 252-256, 266-270
PlainEffect(r, path, arg, resp) ==
    IF ~resp.ok THEN UpstreamFailed(r, path, arg)
    ELSE Returned(r, path, arg, resp.body[2], resp.body[2])

\* the stat leaders: lines 180-186, 196-202
LeadersEffect(r, path, resp) ==
    IF ~resp.ok THEN UpstreamFailed(r, path, <<>>)
    ELSE Returned(r, path, <<>>, resp.body[2],
                  remove_teamlogo(remove_headshot(resp.body[2])))

get_player_by_id(player_id, resp) ==
    LET e == PlainEffect(Start, "player", <<player_id>>, resp) IN
    Finish("get_player_by_id", <<player_id>>, FALSE, e)

get_standings_now(resp) ==
    LET e == PlainEffect(Start, "standings", <<>>, resp) IN
    Finish("get_standings_now", <<>>, FALSE, e)

get_goalie_stat_leaders(resp) ==
    LET e == LeadersEffect(Start, "goalie-stats-leaders", resp) IN
    Finish("get_goalie_stat_leaders", <<>>, FALSE, e)

get_skater_stat_leaders(resp) ==
    LET e == LeadersEffect(Start, "skater-stats-leaders", resp) IN
    Finish("get_skater_stat_leaders", <<>>, FALSE, e)

get_daily_scores(resp) ==
    LET e == PlainEffect(Start, "score", <<>>, resp) IN
    Finish("get_daily_scores", <<>>, FALSE, e)

get_scoreboard(resp) ==
    LET e == PlainEffect(Start, "scoreboard", <<>>, resp) IN
    Finish("get_scoreboard", <<>>, FALSE, e)

---------------------------------------------------------------------------
(* The actions invoked one after another, upstream answering as it likes *)

\* what upstream's standings endpoint may list
Entry(name, abbr) == [teamName |-> name, teamAbbrev |-> abbr]
StandingsEntries ==
    {Entry(<<"A", "b">>, <<"A">>), Entry(<<"B", "a">>, <<"B">>),
     Entry(Missing, <<"B">>)}

StandingsAnswers ==
    {HttpError} \cup {Ok(st) : st \in SeqsUpTo(StandingsEntries, MaxTeams)}

\* the standings request of a resolution is issued only if the file is absent
ResolutionAnswers == IF Exists(teams_file) THEN {NoCall} ELSE StandingsAnswers

\* what upstream's other endpoints may answer
Payloads ==
    {EmptyObject,
     Object([k \in {"headshot"} |-> Scalar("url")]),
     Object([k \in {"teamLogo"} |-> Scalar("url")]),
     ExampleRoster}

Answers == {HttpError} \cup {Ok(p) : p \in Payloads}

Queries == {<<>>, <<"b">>, <<"B", "A">>, <<"x">>}

Init ==
    /\ teams_file = NoFile
    /\ roster_files = <<>>
    /\ last = NoLast
    /\ tree = EmptyObject
    /\ out = EmptyObject
    /\ applied = <<>>

ListTeams == \E sresp \in StandingsAnswers : get_teams(sresp)

TeamRoster ==
    \E q \in Queries, refresh \in BOOLEAN, sresp \in ResolutionAnswers, resp \in Answers :
        get_team_roster(q, refresh, sresp, resp)

PlayerById == \E id \in {1, 2}, resp \in Answers : get_player_by_id(id, resp)

TeamScoreboard ==
    \E q \in Queries, sresp \in ResolutionAnswers, resp \in Answers :
        get_team_scoreboard(q, sresp, resp)

StandingsNow == \E resp \in Answers : get_standings_now(resp)

GoalieLeaders == \E resp \in Answers : get_goalie_stat_leaders(resp)

SkaterLeaders == \E resp \in Answers : get_skater_stat_leaders(resp)

TeamStats ==
    \E q \in Queries, sresp \in ResolutionAnswers, resp \in Answers :
        get_team_stats(q, sresp, resp)

TeamSchedule ==
    \E q \in Queries, sresp \in ResolutionAnswers, resp \in Answers :
        get_team_schedule(q, sresp, resp)

DailyScores == \E resp \in Answers : get_daily_scores(resp)

Scoreboard == \E resp \in Answers : get_scoreboard(resp)

Next ==
    \/ ListTeams
    \/ TeamRoster
    \/ PlayerById
    \/ TeamScoreboard
    \/ StandingsNow
    \/ GoalieLeaders
    \/ SkaterLeaders
    \/ TeamStats
    \/ TeamSchedule
    \/ DailyScores
    \/ Scoreboard

Spec == Init /\ [][Next]_vars

---------------------------------------------------------------------------
(* Traversals applied to arbitrary trees *)

\* the directory a refresh persisted when upstream listed one team
OneTeamFile == write_data_to_json(TeamsOf(<<Entry(<<"A", "b">>, <<"A">>)>>))

InitStrip ==
    /\ tree \in Trees
    /\ out = tree
    /\ applied = <<>>
    /\ teams_file = OneTeamFile
    /\ roster_files = <<>>
    /\ last = NoLast

ApplyRemoveHeadshot ==
    /\ Len(applied) < MaxApply
    /\ out' = remove_headshot(out)
    /\ applied' = Append(applied, "headshot")
    /\ UNCHANGED <<tree, teams_file, roster_files, last>>

ApplyRemoveTeamlogo ==
    /\ Len(applied) < MaxApply
    /\ out' = remove_teamlogo(out)
    /\ applied' = Append(applied, "teamLogo")
    /\ UNCHANGED <<tree, teams_file, roster_files, last>>

\* the roster action when upstream answers its request with `tree`
RosterOfTree ==
    /\ applied = <<>>
    /\ get_team_roster(<<"A">>, FALSE, NoCall, Ok(tree))

NextStrip == ApplyRemoveHeadshot \/ ApplyRemoveTeamlogo \/ RosterOfTree

SpecStrip == InitStrip /\ [][NextStrip]_vars

---------------------------------------------------------------------------
(* The resolver on arbitrary directories and queries: one team-scoped      *)
(* invocation per directory                                                *)

Team(name, abbr) == [team_name |-> name, team_abbreviation |-> abbr]
ResolveRecords ==
    {Team(<<"B", "a">>, <<"A", "B">>), Team(<<"a", "a">>, <<"B">>),
     Team(<<"b">>, <<"A">>), Team(<<"A", "b", "a">>, <<"b", "b">>)}

ResolveDirs == SeqsUpTo(ResolveRecords, MaxDir)

\* the standings answer from which a refresh builds directory d
StandingsOf(d) == [i \in 1..Len(d) |-> Entry(d[i].team_name, d[i].team_abbreviation)]

ResolveQueries == StrsUpTo({"a", "A", "b", "B"}, MaxQueryLen)

ResolveStandings ==
    IF Exists(teams_file) THEN {NoCall}
    ELSE {HttpError} \cup {Ok(StandingsOf(d)) : d \in ResolveDirs}

ResolveAnswers == {HttpError, Ok(Object([k \in {"teamLogo"} |-> Scalar("url")]))}

InitResolve ==
    /\ teams_file \in {NoFile} \cup {write_data_to_json(d) : d \in ResolveDirs}
    /\ roster_files = <<>>
    /\ last = NoLast
    /\ tree = EmptyObject
    /\ out = EmptyObject
    /\ applied = <<>>

ResolveForRoster ==
    /\ last = NoLast
    /\ \E q \in ResolveQueries, sresp \in ResolveStandings, resp \in ResolveAnswers :
        get_team_roster(q, FALSE, sresp, resp)

ResolveForScoreboard ==
    /\ last = NoLast
    /\ \E q \in ResolveQueries, sresp \in ResolveStandings, resp \in ResolveAnswers :
        get_team_scoreboard(q, sresp, resp)

ResolveForStats ==
    /\ last = NoLast
    /\ \E q \in ResolveQueries, sresp \in ResolveStandings, resp \in ResolveAnswers :
        get_team_stats(q, sresp, resp)

ResolveForSchedule ==
    /\ last = NoLast
    /\ \E q \in ResolveQueries, sresp \in ResolveStandings, resp \in ResolveAnswers :
        get_team_schedule(q, sresp, resp)

NextResolve ==
    ResolveForRoster \/ ResolveForScoreboard \/ ResolveForStats \/ ResolveForSchedule

SpecResolve == InitResolve /\ [][NextResolve]_vars

---------------------------------------------------------------------------
(* Vocabulary of the properties *)

TeamScoped ==
    {"get_team_roster", "get_team_scoreboard", "get_team_stats", "get_team_schedule"}

PathOf(action) ==
    CASE action = "get_team_roster" -> "roster"
      [] action = "get_team_scoreboard" -> "scoreboard"
      [] action = "get_team_stats" -> "club-stats"
      [] action = "get_team_schedule" -> "club-schedule-season"
      [] OTHER -> "none"

\* a record matches a query: the lowercased query occurs in the lowercased
\* name or in the lowercased abbreviation
RecordMatches(q, rec) ==
    \/ \E i \in 0..Len(rec.team_name) :
          /\ i + Len(q) <= Len(rec.team_name)
          /\ \A j \in 1..Len(q) : LowerChar(q[j]) = LowerChar(rec.team_name[i + j])
    \/ \E i \in 0..Len(rec.team_abbreviation) :
          /\ i + Len(q) <= Len(rec.team_abbreviation)
          /\ \A j \in 1..Len(q) : LowerChar(q[j]) = LowerChar(rec.team_abbreviation[i + j])

\* some object node of t, at any depth, has the key
RECURSIVE HasKey(_, _)
HasKey(t, key) ==
    IF IsObject(t) THEN
        key \in DOMAIN t[2] \/ \E k \in DOMAIN t[2] : HasKey(t[2][k], key)
    ELSE IF IsArray(t) THEN \E i \in 1..Len(t[2]) : HasKey(t[2][i], key)
    ELSE FALSE

\* the number of object nodes of t that have the key
RECURSIVE CountKey(_, _), SumOver(_, _, _)
SumOver(ts, key, i) ==
    IF i > Len(ts) THEN 0 ELSE CountKey(ts[i], key) + SumOver(ts, key, i + 1)

CountKey(t, key) ==
    IF IsObject(t) THEN
        LET ks == DOMAIN t[2]
            kseq == SelectSeq(KeyOrder \o <<"forwards">>, LAMBDA k : k \in ks)
        IN (IF key \in ks THEN 1 ELSE 0)
           + SumOver([i \in 1..Len(kseq) |-> t[2][kseq[i]]], key, 1)
    ELSE IF IsArray(t) THEN SumOver(t[2], key, 1)
    ELSE 0

\* u is t with, at every object node that remains, the entry under `key`
\* taken out and nothing else changed
RECURSIVE Preserved(_, _, _)
Preserved(t, u, key) ==
    IF IsObject(t) THEN
        /\ IsObject(u)
        /\ DOMAIN u[2] = DOMAIN t[2] \ {key}
        /\ \A k \in DOMAIN u[2] : Preserved(t[2][k], u[2][k], key)
    ELSE IF IsArray(t) THEN
        /\ IsArray(u)
        /\ Len(u[2]) = Len(t[2])
        /\ \A i \in 1..Len(t[2]) : Preserved(t[2][i], u[2][i], key)
    ELSE u = t

\* the last request of the invocation was refused by upstream
LastCallFailed == last.gets # <<>> /\ ~last.gets[Len(last.gets)][3]

\* the directory the last team-scoped invocation loaded, when it loaded one
Loaded == last.action \in TeamScoped /\ Exists(teams_file)
D == json_load(teams_file)

---------------------------------------------------------------------------
(* C1: if the lowercased query is a substring of the lowercased name or    *)
(* abbreviation of some record of the loaded directory, the resolution     *)
(* returns the abbreviation of the first such record in directory order;   *)
(* the empty query returns the first entry of a non-empty directory.       *)
C1_FirstMatchWins ==
    Loaded =>
        /\ \A i \in 1..Len(D) :
              (RecordMatches(last.query, D[i])
               /\ \A j \in 1..(i - 1) : ~RecordMatches(last.query, D[j]))
              => last.abbr = Value(D[i].team_abbreviation)
        /\ (last.query = <<>> /\ Len(D) > 0)
              => last.abbr = Value(D[1].team_abbreviation)

C1_Witness ==
    /\ Loaded
    /\ Len(D) = 2
    /\ ~RecordMatches(last.query, D[1])
    /\ RecordMatches(last.query, D[2])
    /\ last.query # lower(last.query)
    /\ last.abbr = Value(D[2].team_abbreviation)

(* C2: the resolution fails with the not-found error exactly when no       *)
(* record of the loaded directory matches the query; on an empty directory *)
(* it fails with not-found for every query, the empty query included.      *)
C2_NotFoundIffNoMatch ==
    /\ Loaded =>
          /\ last.outcome = "ValueError"
                <=> ~\E i \in 1..Len(D) : RecordMatches(last.query, D[i])
          /\ D = <<>> => last.outcome = "ValueError"
    /\ (last.action \in TeamScoped /\ ~Exists(teams_file))
          => last.outcome \in {"UpstreamError", "TypeError"}

C2_Witness ==
    /\ Loaded
    /\ D = <<>>
    /\ last.query = <<>>
    /\ last.outcome = "ValueError"

(* C3 as stated: when the last upstream call of an invocation is refused,  *)
(* the action fails with the upstream error and the invocation wrote no    *)
(* file at all.                                                            *)
C3_NoFileWritten ==
    LastCallFailed => last.outcome = "UpstreamError" /\ last.written = {}

(* C3 amended: when an upstream call of an invocation is refused, the      *)
(* action fails with the upstream error, returns nothing and writes no     *)
(* roster file; the team directory file is written in that invocation      *)
(* exactly when the action is team-scoped, the file was absent at its      *)
(* start and its standings request succeeded before the refused call, and  *)
(* is otherwise left as it was.                                            *)
C3_NoFileWrittenAfterFailure ==
    LastCallFailed =>
        /\ last.outcome = "UpstreamError"
        /\ last.result = NoValue
        /\ last.written \subseteq {TeamsFileName}
        /\ TeamsFileName \in last.written
              <=> (last.action \in TeamScoped /\ ~Exists(last.before)
                   /\ Len(last.gets) = 2 /\ last.gets[1][3])
        /\ TeamsFileName \notin last.written => teams_file = last.before

C3_Witness ==
    /\ LastCallFailed
    /\ last.action = "get_team_roster"
    /\ Exists(last.before)
    /\ last.abbr # NoValue
    /\ last.written = {}

(* C4 as stated: every invocation of an action issues exactly one request. *)
C4_ExactlyOneGet ==
    last.action # "none" => Len(last.gets) = 1

(* C4 amended: an action that is not team-scoped issues exactly one        *)
(* request.  A team-scoped action issues first one standings request       *)
(* exactly when the directory file is absent at its start, and then one    *)
(* request to its own endpoint, with the resolved abbreviation, exactly    *)
(* when the resolution succeeded; it issues no other request.              *)
C4_GetsPerInvocation ==
    /\ (last.action # "none" /\ last.action \notin TeamScoped) => Len(last.gets) = 1
    /\ last.action \in TeamScoped =>
          LET lazy == IF Exists(last.before) THEN 0 ELSE 1
              own == IF last.abbr # NoValue THEN 1 ELSE 0
              n == Len(last.gets)
          IN /\ n = lazy + own
             /\ lazy = 1 => last.gets[1][1] = "standings"
             /\ own = 1 => /\ last.gets[n][1] = PathOf(last.action)
                           /\ last.gets[n][2] = last.abbr[2]
             /\ last.abbr # NoValue
                   <=> (Exists(teams_file) /\ last.outcome # "ValueError")

C4_Witness ==
    /\ last.action = "get_team_scoreboard"
    /\ ~Exists(last.before)
    /\ Len(last.gets) = 2
    /\ last.outcome = "ok"

(* C5: for the team-scoped actions, when the upstream call succeeds but    *)
(* the payload is falsy after the action's noise stripping, the action     *)
(* fails with the empty-result error and returns no payload; the roster    *)
(* action writes no roster file then, and no roster file ever holds a      *)
(* falsy payload.                                                          *)
StrippedFor(action, body) ==
    CASE action = "get_team_roster" -> remove_headshot(body)
      [] action = "get_team_stats" -> remove_teamlogo(remove_headshot(body))
      [] OTHER -> body

C5_EmptyResult ==
    /\ (last.action \in TeamScoped /\ last.payload # NoValue
        /\ Falsy(StrippedFor(last.action, last.payload[2])))
          => /\ last.outcome = "ActionError"
             /\ last.result = NoValue
             /\ RosterFileName(last.abbr[2]) \notin last.written
    /\ \A a \in DOMAIN roster_files : ~Falsy(json_load(roster_files[a]))
    /\ (last.action = "get_team_roster" /\ last.outcome # "ok")
          => \A a \in DOMAIN roster_files : RosterFileName(a) \notin last.written

C5_Witness ==
    /\ last.action = "get_team_roster"
    /\ last.payload = Value(Object([k \in {"headshot"} |-> Scalar("url")]))
    /\ last.outcome = "ActionError"
    /\ last.abbr[2] \notin DOMAIN roster_files

(* C6: a successful get_teams leaves as the persisted directory exactly    *)
(* one {team_name, team_abbreviation} record per upstream standings entry, *)
(* in upstream order, whatever was persisted before, and returns that      *)
(* list; a get_teams that fails leaves the directory file as it was.       *)
C6_RefreshWholesale ==
    last.action = "get_teams" =>
        /\ last.outcome = "ok" =>
              /\ last.standings # NoValue
              /\ Exists(teams_file)
              /\ Len(D) = Len(last.standings[2])
              /\ \A i \in 1..Len(D) :
                    /\ D[i].team_name = last.standings[2][i].teamName
                    /\ D[i].team_abbreviation = last.standings[2][i].teamAbbrev
              /\ last.result = Value(D)
        /\ last.outcome # "ok" =>
              /\ teams_file = last.before
              /\ last.result = NoValue
              /\ last.written = {}
        /\ ~last.gets[1][3] => last.outcome = "UpstreamError"

C6_Witness ==
    /\ last.action = "get_teams"
    /\ last.outcome = "ok"
    /\ Exists(last.before)
    /\ Len(json_load(last.before)) = 2
    /\ Len(D) = 1
    /\ D[1] # json_load(last.before)[1]

(* C7: after remove_headshot (remove_teamlogo) no object node at any depth *)
(* has the key headshot (teamLogo); the scenario's roster answer becomes   *)
(* {"forwards": [{"name": "A"}]}; what the roster action returns and       *)
(* persists has no headshot key.                                           *)
C7_KeyGone ==
    /\ applied # <<>> => ~HasKey(out, applied[Len(applied)])
    /\ (tree = ExampleRoster /\ applied = <<"headshot">>) => out = ExampleStripped
    /\ (last.action = "get_team_roster" /\ last.outcome = "ok")
          => ~HasKey(last.result[2], "headshot")
    /\ \A a \in DOMAIN roster_files :
          ~HasKey(json_load(roster_files[a]), "headshot")

C7_Witness ==
    /\ tree = ExampleRoster
    /\ applied = <<"headshot">>
    /\ last.action = "get_team_roster"
    /\ last.result = Value(out)
    /\ roster_files[<<"A">>] = write_data_to_json(ExampleStripped)

(* C8: applying a traversal a second time changes nothing, and the two     *)
(* traversals give the same tree in either order.                          *)
RECURSIVE ApplyAll(_, _, _)
ApplyAll(t, ks, i) ==
    IF i > Len(ks) THEN t
    ELSE ApplyAll(IF ks[i] = "headshot" THEN remove_headshot(t) ELSE remove_teamlogo(t),
                  ks, i + 1)

C8_IdempotentCommute ==
    Len(applied) >= 2 =>
        LET n == Len(applied) IN
        IF applied[n] = applied[n - 1]
        THEN out = ApplyAll(tree, SubSeq(applied, 1, n - 1), 1)
        ELSE out = ApplyAll(tree, [applied EXCEPT ![n] = applied[n - 1],
                                                  ![n - 1] = applied[n]], 1)

C8_Witness ==
    /\ applied = <<"teamLogo", "headshot">>
    /\ HasKey(tree, "headshot")
    /\ HasKey(tree, "teamLogo")
    /\ out # tree
    /\ out = remove_teamlogo(remove_headshot(tree))

(* C9 as stated: a traversal removes no key other than its own: every      *)
(* other key of the tree is still there afterwards, as often as before.    *)
C9_NoOtherKeyRemoved ==
    Len(applied) = 1 =>
        \A k \in Keys \ {applied[1]} : CountKey(out, k) = CountKey(tree, k)

(* C9 amended: a traversal takes out, at every object node, the entry      *)
(* under its key together with the value stored under it, and changes      *)
(* nothing outside those values: scalars, the length and order of arrays   *)
(* and all other entries stay as they were, and a tree without the key is  *)
(* returned unchanged.                                                     *)
C9_FramePreserved ==
    Len(applied) = 1 =>
        /\ Preserved(tree, out, applied[1])
        /\ ~HasKey(tree, applied[1]) => out = tree

C9_Witness ==
    /\ applied = <<"headshot">>
    /\ HasKey(tree, "headshot")
    /\ HasKey(out, "teamLogo")
    /\ CountKey(out, "teamLogo") = CountKey(tree, "teamLogo")
    /\ IsArray(tree)

(* C10: once the directory file exists, no action other than get_teams     *)
(* changes it, no team-scoped action (get_team_roster with refresh=True    *)
(* included) issues a standings request, and if the persisted directory is *)
(* empty every team-scoped action fails with not-found.                    *)
C10_NoRefreshOnceCached ==
    [][(Exists(teams_file) /\ last'.action # "get_teams") =>
          /\ teams_file' = teams_file
          /\ last'.action \in TeamScoped =>
                /\ \A i \in 1..Len(last'.gets) : last'.gets[i][1] # "standings"
                /\ json_load(teams_file) = <<>> => last'.outcome = "ValueError"]_vars

C10_Witness ==
    /\ last.action = "get_team_roster"
    /\ last.refresh
    /\ Exists(last.before)
    /\ json_load(last.before) = <<>>
    /\ last.outcome = "ValueError"
    /\ last.gets = <<>>

=============================================================================
